---- MODULE Spec2Model ----
(***************************************************************************)
(* Model of convert_batch.py: the per-range batch conversion pipeline      *)
(* (run -> process_minibatch -> process_single_pdf -> post_process), the   *)
(* job distributor loop of __main__, the chunks generator and the          *)
(* monitor_queue consumer.                                                 *)
(***************************************************************************)
EXTENDS Integers, Sequences, FiniteSets, TLC

\* ------------------------------------------------------------------ bounds
MaxN == 3          \* entries in a minibatch
MaxTextLen == 2    \* largest value get_length_of_text reports
MaxMinLength == 2  \* largest --min_length

\* ------------------------------------------------------------ Python values
\* a variable holds one of these tags or Val(v), so that values stay comparable
None == <<"None">>
Unbound == <<"Unbound">>
Raises == <<"Raises">>
NoCall == <<"NoCall">>
Val(v) == <<"val", v>>
IsVal(x) == Len(x) = 2
ValOf(x) == x[2]

Min(a, b) == IF a < b THEN a ELSE b
Max(a, b) == IF a > b THEN a ELSE b

Whitespace == {" ", "\n"}

RECURSIVE LStrip(_)
LStrip(s) == IF s # <<>> /\ Head(s) \in Whitespace THEN LStrip(Tail(s)) ELSE s

RECURSIVE RStrip(_)
RStrip(s) ==
  IF s # <<>> /\ s[Len(s)] \in Whitespace THEN RStrip(SubSeq(s, 1, Len(s) - 1)) ELSE s

\* str.strip()
Strip(s) == RStrip(LStrip(s))

\* `if min_length:` -- None and 0 are falsy
Truthy(v) == v # None /\ ValOf(v) # 0

\* `length < min_length`
BelowMinLength_le(length, m) == length <= m
BelowMinLength(length, m) == length < m

\* `len(full_text.strip()) > 0`
HasText_nostrip(text) == Len(text) > 0
HasText(text) == Len(Strip(text)) > 0

\* texts convert_single_pdf may return: empty, blank, and with content
Texts ==
  { <<>>,
    <<" ">>,
    <<"\n", " ">>,
    <<"x">>,
    <<" ", "x", "\n">> }

\* ------------------------------------------------------------------- state
VARIABLES
  minibatch,    \* the list process_minibatch iterates
  min_length,   \* --min_length (None when not configured)
  pc,           \* position of the worker
  i,            \* number of entries the for loop has started
  local_file,   \* local variable of process_single_pdf
  full_text,    \* local variable of process_single_pdf
  models,       \* number of load_all_models() calls made
  trace,        \* calls made by process_minibatch, in order
  log,          \* events given to logger, in order
  fetched,      \* per entry: result of pre_process
  textLen,      \* per entry: result of get_length_of_text
  engineCalls,  \* per entry: number of convert_single_pdf calls
  engineText,   \* per entry: result of convert_single_pdf
  writes,       \* per entry: number of artifact writes
  uploads,      \* per entry: number of azcopy.upload calls
  uploaded,     \* per entry: result of azcopy.upload
  outcome       \* per entry: how process_single_pdf ended

wvars == <<minibatch, min_length, pc, i, local_file, full_text, models, trace,
           log, fetched, textLen, engineCalls, engineText, writes, uploads,
           uploaded, outcome>>

VARIABLES
  manifest,     \* the lines of the index file
  offset,       \* MY_JOB_OFFSET
  length,       \* MY_JOB_LENGTH
  urls,         \* the list run() hands to process_minibatch
  rpc           \* position of run()

rvars == <<manifest, offset, length, urls, rpc>>

VARIABLES
  lst,          \* argument of chunks
  n,            \* argument of chunks
  ci,           \* loop variable i of chunks
  out,          \* the chunks yielded so far
  cpc           \* position of the generator

cvars == <<lst, n, ci, out, cpc>>

VARIABLES
  tot_files,    \* get_file_count(index_url)
  batch_size,   \* g_config.batch_size
  doffset,      \* loop variable offset of the submit loop
  tasks,        \* the list tasks
  submitted,    \* what submit_tasks received
  dpc           \* position of the distributor

dvars == <<tot_files, batch_size, doffset, tasks, submitted, dpc>>

VARIABLES
  queue,        \* the multi-producer queue
  enq,          \* every message put so far, in arrival order
  sent,         \* per producer: number of events put
  printed,      \* what monitor_queue printed, in order
  mpc           \* position of monitor_queue

qvars == <<queue, enq, sent, printed, mpc>>

vars == <<wvars, rvars, cvars, dvars, qvars>>

Event(kind, name, isError) == [kind |-> kind, name |-> name, isError |-> isError]
TimerEvent(name) == Event("Timer", name, FALSE)

N == Len(minibatch)
Entries == 1..N

\* the parts of the program a specification does not run stay where they are
WorkerIdle ==
  /\ minibatch = <<>> /\ min_length = None /\ pc = "idle" /\ i = 0
  /\ local_file = Unbound /\ full_text = Unbound /\ models = 0
  /\ trace = <<>> /\ log = <<>>
  /\ fetched = <<>> /\ textLen = <<>> /\ engineCalls = <<>> /\ engineText = <<>>
  /\ writes = <<>> /\ uploads = <<>> /\ uploaded = <<>> /\ outcome = <<>>

RangeIdle ==
  manifest = <<>> /\ offset = 0 /\ length = 0 /\ urls = <<>> /\ rpc = "idle"

ChunksIdle ==
  lst = <<>> /\ n = 1 /\ ci = 0 /\ out = <<>> /\ cpc = "idle"

DistIdle ==
  /\ tot_files = 0 /\ batch_size = 1 /\ doffset = 0
  /\ tasks = <<>> /\ submitted = <<>> /\ dpc = "idle"

QueueIdle ==
  queue = <<>> /\ enq = <<>> /\ sent = <<>> /\ printed = <<>> /\ mpc = "idle"

WorkerInit ==
  /\ \E k \in 0..MaxN : minibatch = [e \in 1..k |-> e]
  /\ min_length \in {None} \cup {Val(m) : m \in 0..MaxMinLength}
  /\ pc = "load_models"
  /\ i = 0
  /\ local_file = Unbound
  /\ full_text = Unbound
  /\ models = 0
  /\ trace = <<>>
  /\ log = <<>>
  /\ fetched = [e \in 1..MaxN |-> "NoCall"]
  /\ textLen = [e \in 1..MaxN |-> NoCall]
  /\ engineCalls = [e \in 1..MaxN |-> 0]
  /\ engineText = [e \in 1..MaxN |-> NoCall]
  /\ writes = [e \in 1..MaxN |-> 0]
  /\ uploads = [e \in 1..MaxN |-> 0]
  /\ uploaded = [e \in 1..MaxN |-> "NoCall"]
  /\ outcome = [e \in 1..MaxN |-> "NoCall"]

\* lines 177-180: load the engine, then log the minibatch size
LoadModels ==
  /\ pc = "load_models"
  /\ models' = models + 1
  /\ trace' = Append(trace, <<"load_all_models">>)
  /\ log' = log \o <<TimerEvent("load_models"), Event("minibatch of", N, FALSE)>>
  /\ pc' = "for"
  /\ UNCHANGED <<minibatch, min_length, i, local_file, full_text, fetched,
                 textLen, engineCalls, engineText, writes, uploads, uploaded,
                 outcome>>
  /\ UNCHANGED <<rvars, cvars, dvars, qvars>>

\* lines 182-185: the for loop head; calls process_single_pdf or ends
ForNext ==
  /\ pc = "for"
  /\ IF i < N
       THEN /\ i' = i + 1
            /\ trace' = Append(trace, <<"process_single_pdf", minibatch[i + 1]>>)
            /\ local_file' = Unbound
            /\ full_text' = Unbound
            /\ pc' = "pre_process"
            /\ UNCHANGED log
       ELSE /\ log' = Append(log, TimerEvent("process_minibatch"))
            /\ pc' = "done"
            /\ UNCHANGED <<i, trace, local_file, full_text>>
  /\ UNCHANGED <<minibatch, min_length, models, fetched, textLen, engineCalls,
                 engineText, writes, uploads, uploaded, outcome>>
  /\ UNCHANGED <<rvars, cvars, dvars, qvars>>

\* a return of process_single_pdf: the timer of line 184 logs, the loop goes on
Return(o, events) ==
  /\ outcome' = [outcome EXCEPT ![i] = o]
  /\ log' = log \o events \o <<TimerEvent("process_single_pdf")>>
  /\ pc' = "for"

\* lines 146-155: fetch; on success bind local_file and log the attempt
PreProcess ==
  /\ pc = "pre_process"
  /\ \E ok \in BOOLEAN :
       IF ok
         THEN /\ fetched' = [fetched EXCEPT ![i] = "ok"]
              /\ local_file' = Val(minibatch[i])
              /\ log' = Append(log, Event("Converting", minibatch[i], FALSE))
              /\ pc' = "filter"
         ELSE /\ fetched' = [fetched EXCEPT ![i] = "failed"]
              /\ pc' = "except"
              /\ UNCHANGED <<local_file, log>>
  /\ UNCHANGED <<minibatch, min_length, i, full_text, models, trace, textLen,
                 engineCalls, engineText, writes, uploads, uploaded, outcome>>
  /\ UNCHANGED <<rvars, cvars, dvars, qvars>>

\* lines 160-163: the optional minimum-length gate
Filter ==
  /\ pc = "filter"
  /\ IF Truthy(min_length)
       THEN \E r \in {Val(l) : l \in 0..MaxTextLen} \cup {Raises} :
              /\ textLen' = [textLen EXCEPT ![i] = r]
              /\ IF r = Raises
                   THEN pc' = "except" /\ UNCHANGED <<log, outcome>>
                   ELSE IF BelowMinLength(ValOf(r), ValOf(min_length))
                          THEN Return("Skipped", <<>>)
                          ELSE pc' = "convert" /\ UNCHANGED <<log, outcome>>
       ELSE pc' = "convert" /\ UNCHANGED <<textLen, log, outcome>>
  /\ UNCHANGED <<minibatch, min_length, i, local_file, full_text, models, trace,
                 fetched, engineCalls, engineText, writes, uploads, uploaded>>
  /\ UNCHANGED <<rvars, cvars, dvars, qvars>>

\* line 165: the conversion engine
Convert ==
  /\ pc = "convert"
  /\ engineCalls' = [engineCalls EXCEPT ![i] = @ + 1]
  /\ \E r \in {Val(t) : t \in Texts} \cup {Raises} :
       /\ engineText' = [engineText EXCEPT ![i] = r]
       /\ IF r = Raises
            THEN pc' = "except" /\ UNCHANGED full_text
            ELSE pc' = "post_process" /\ full_text' = r
  /\ UNCHANGED <<minibatch, min_length, i, local_file, models, trace, log,
                 fetched, textLen, writes, uploads, uploaded, outcome>>
  /\ UNCHANGED <<rvars, cvars, dvars, qvars>>

\* lines 121-134 (called at line 166)
PostProcess ==
  /\ pc = "post_process"
  /\ IF HasText(ValOf(full_text))
       THEN /\ writes' = [writes EXCEPT ![i] = @ + 1]
            /\ uploads' = [uploads EXCEPT ![i] = @ + 1]
            /\ \E ok \in BOOLEAN :
                 IF ok
                   THEN /\ uploaded' = [uploaded EXCEPT ![i] = "ok"]
                        /\ Return("Success", <<Event("Uploading", minibatch[i], FALSE)>>)
                   ELSE /\ uploaded' = [uploaded EXCEPT ![i] = "failed"]
                        /\ log' = Append(log, Event("Uploading", minibatch[i], FALSE))
                        /\ pc' = "except"
                        /\ UNCHANGED outcome
       ELSE /\ Return("Skipped", <<Event("Empty file", minibatch[i], FALSE)>>)
            /\ UNCHANGED <<writes, uploads, uploaded>>
  /\ UNCHANGED <<minibatch, min_length, i, local_file, full_text, models, trace,
                 fetched, textLen, engineCalls, engineText>>
  /\ UNCHANGED <<rvars, cvars, dvars, qvars>>

\* a handler that lets every exception leave process_single_pdf
Except_reraise ==
  /\ pc = "except"
  /\ outcome' = [outcome EXCEPT ![i] = "Raised"]
  /\ log' = log \o <<TimerEvent("process_single_pdf"), TimerEvent("process_minibatch")>>
  /\ pc' = "aborted"
  /\ UNCHANGED <<minibatch, min_length, i, local_file, full_text, models, trace,
                 fetched, textLen, engineCalls, engineText, writes, uploads,
                 uploaded>>
  /\ UNCHANGED <<rvars, cvars, dvars, qvars>>

\* lines 167-169: the handler reads local_file before it logs; when the fetch
\* raised, local_file is unbound and the read raises UnboundLocalError, which
\* leaves process_single_pdf and process_minibatch through their timers
Except ==
  /\ pc = "except"
  /\ IF local_file = Unbound
       THEN /\ outcome' = [outcome EXCEPT ![i] = "Raised"]
            /\ log' = log \o <<TimerEvent("process_single_pdf"),
                               TimerEvent("process_minibatch")>>
            /\ pc' = "aborted"
       ELSE Return("Failed", <<Event("Error converting", ValOf(local_file), FALSE),
                               Event("exception", ValOf(local_file), TRUE)>>)
  /\ UNCHANGED <<minibatch, min_length, i, local_file, full_text, models, trace,
                 fetched, textLen, engineCalls, engineText, writes, uploads,
                 uploaded>>
  /\ UNCHANGED <<rvars, cvars, dvars, qvars>>

WorkerNext ==
  \/ LoadModels
  \/ ForNext
  \/ PreProcess
  \/ Filter
  \/ Convert
  \/ PostProcess
  \/ Except

\* process_minibatch alone
Init == WorkerInit /\ RangeIdle /\ ChunksIdle /\ DistIdle /\ QueueIdle

Spec == Init /\ [][WorkerNext]_vars

\* ------------------------------------------------- properties of the worker
Terminated == pc \in {"done", "aborted"}
Finished(e) == outcome[e] # "NoCall"
IsPrefix(s, t) == Len(s) <= Len(t) /\ SubSeq(t, 1, Len(s)) = s
LoggedFor(e, kinds) ==
  \E k \in DOMAIN log : log[k].kind \in kinds /\ log[k].name = minibatch[e]

\* C1: a fetch failure is caught inside process_single_pdf: nothing is raised
\* to process_minibatch, an error event for the entry is logged, and every
\* later entry of the minibatch is still processed.
C1_FetchFailureIsolated ==
  \A e \in Entries :
    fetched[e] = "failed" =>
      /\ pc # "aborted"
      /\ outcome[e] # "Raised"
      /\ (Finished(e) => LoggedFor(e, {"Error converting", "exception"}))
      /\ (Terminated => \A later \in Entries : later > e => Finished(later))

EngineFailures == {e \in Entries : engineText[e] = Raises}
FailedEntries == {e \in Entries : outcome[e] = "Failed"}
AllFetchesSucceed == \A e \in Entries : fetched[e] = "ok"
NoOtherFailure == \A e \in Entries : textLen[e] # Raises /\ uploaded[e] # "failed"
OneFailedRestProcessed ==
  /\ pc = "done"
  /\ Cardinality(FailedEntries) = 1
  /\ \A e \in Entries \ EngineFailures : outcome[e] \in {"Success", "Skipped"}

\* C2 as stated: in a minibatch where exactly one entry triggers an engine
\* failure and all fetches succeed, the worker finishes, exactly one entry is
\* Failed and every other entry is Success or Skipped.
C2_EngineFaultIsolation_Original ==
  (Terminated /\ Cardinality(EngineFailures) = 1 /\ AllFetchesSucceed)
    => OneFailedRestProcessed

\* C2 amended: in a minibatch where exactly one entry triggers an engine
\* failure, all fetches succeed and no length pre-check or upload fails, the
\* worker finishes, exactly one entry is Failed and every other entry is
\* Success or Skipped.
C2_EngineFaultIsolation ==
  (Terminated /\ Cardinality(EngineFailures) = 1 /\ AllFetchesSucceed /\ NoOtherFailure)
    => OneFailedRestProcessed

C2_Witness ==
  /\ pc = "done" /\ N = MaxN
  /\ Cardinality(EngineFailures) = 1 /\ AllFetchesSucceed /\ NoOtherFailure
  /\ engineText[1] = Raises
  /\ \E e \in Entries : outcome[e] = "Success"

NonBlank(t) == \E k \in 1..Len(t) : t[k] \notin Whitespace
FilteredOut(e) ==
  Truthy(min_length) /\ IsVal(textLen[e]) /\ ValOf(textLen[e]) < ValOf(min_length)
UploadDue(e) ==
  /\ fetched[e] = "ok"
  /\ ~FilteredOut(e)
  /\ IsVal(engineText[e])
  /\ NonBlank(ValOf(engineText[e]))

\* C5: for every entry, the artifact is written and azcopy.upload is called,
\* each exactly once, if and only if the fetch succeeded, the entry was not
\* filtered out, the engine returned text and the text has a non-whitespace
\* character; a text that is blank after trimming is neither written nor
\* uploaded and the entry is skipped.
C5_UploadOnlyNonEmpty ==
  \A e \in Entries :
    /\ writes[e] = uploads[e]
    /\ uploads[e] \in {0, 1}
    /\ (uploads[e] = 1 => UploadDue(e))
    /\ (Finished(e) /\ UploadDue(e) => uploads[e] = 1)
    /\ (Finished(e) /\ IsVal(engineText[e]) /\ ~NonBlank(ValOf(engineText[e]))
          => uploads[e] = 0 /\ outcome[e] = "Skipped")

C5_Witness ==
  /\ pc = "done"
  /\ \E e \in Entries :
       /\ IsVal(engineText[e]) /\ ValOf(engineText[e]) = <<" ">>
       /\ uploads[e] = 0 /\ outcome[e] = "Skipped"
  /\ \E e \in Entries : uploads[e] = 1 /\ writes[e] = 1 /\ outcome[e] = "Success"

\* the engine has been reached (or passed) for entry e
PastConvert(e) == e < i \/ (e = i /\ pc \notin {"pre_process", "filter", "convert"})

\* C6: when min_length is configured, every document whose pre-checked text
\* length is strictly below min_length ends Skipped without a call of
\* convert_single_pdf, and every document whose length is at least min_length
\* is passed to convert_single_pdf.
C6_QualityFilter ==
  min_length # None =>
    \A e \in Entries :
      /\ (IsVal(textLen[e]) /\ ValOf(textLen[e]) < ValOf(min_length))
           => (engineCalls[e] = 0 /\ outcome[e] = "Skipped")
      /\ (IsVal(textLen[e]) /\ ValOf(textLen[e]) >= ValOf(min_length) /\ PastConvert(e))
           => engineCalls[e] = 1
      /\ (ValOf(min_length) = 0 /\ fetched[e] = "ok" /\ PastConvert(e))
           => engineCalls[e] = 1

C6_Witness ==
  /\ pc = "done" /\ Truthy(min_length)
  /\ \E e \in Entries :
       /\ IsVal(textLen[e]) /\ ValOf(textLen[e]) < ValOf(min_length)
       /\ outcome[e] = "Skipped" /\ engineCalls[e] = 0
  /\ \E e \in Entries :
       /\ IsVal(textLen[e]) /\ ValOf(textLen[e]) = ValOf(min_length)
       /\ engineCalls[e] = 1

SkipEventKinds == {"Empty file", "Below minimum length"}

\* C7: every entry that ends Skipped, by the minimum-length gate or by an empty
\* conversion result, has an informational event in the log that identifies
\* its skip.
C7_EverySkipLogged ==
  \A e \in Entries :
    outcome[e] = "Skipped" =>
      \E k \in DOMAIN log :
        /\ log[k].kind \in SkipEventKinds
        /\ log[k].name = minibatch[e]
        /\ ~log[k].isError

ExpectedTrace ==
  <<<<"load_all_models">>>> \o [k \in 1..N |-> <<"process_single_pdf", minibatch[k]>>]

\* C10: the calls of process_minibatch are one engine load followed by one
\* process_single_pdf call per entry, in list order, each entry once, and the
\* worker ends only after the call for the last entry.
C10_WorkerCallOrder ==
  /\ IsPrefix(trace, ExpectedTrace)
  /\ models <= 1
  /\ (Terminated => trace = ExpectedTrace)

\* ------------------------------------------------ run(): range resolution
MaxFiles == 3      \* lines in the index file
MaxOffset == 4     \* largest MY_JOB_OFFSET
MaxLength == 4     \* largest MY_JOB_LENGTH

\* lines of an index file as readlines() returns them
ManifestLines ==
  { <<"a", "\n">>,
    <<" ", "[", "a", "\n">>,
    <<"a", " ", "b", " ", "\n">> }

\* urllib.parse.quote of one character (safe = "/")
QuoteChar(c) ==
  CASE c = " "  -> <<"%", "2", "0">>
    [] c = "\n" -> <<"%", "0", "A">>
    [] c = "["  -> <<"%", "5", "B">>
    [] OTHER    -> <<c>>

RECURSIVE Quote(_)
Quote(s) == IF s = <<>> THEN <<>> ELSE QuoteChar(Head(s)) \o Quote(Tail(s))

\* a slice bound of a list of length len
SliceIndex(x, len) == IF x < 0 THEN Max(x + len, 0) ELSE Min(x, len)

\* a slice that keeps the element at index b
PySlice_inclusive(s, a, b) ==
  SubSeq(s, SliceIndex(a, Len(s)) + 1, SliceIndex(b + 1, Len(s)))

\* s[a:b]
PySlice(s, a, b) ==
  SubSeq(s, SliceIndex(a, Len(s)) + 1, SliceIndex(b, Len(s)))

RangeInit ==
  /\ \E k \in 0..MaxFiles : manifest \in [1..k -> ManifestLines]
  /\ offset \in -1..MaxOffset
  /\ length \in -1..MaxLength
  /\ urls = <<>>
  /\ rpc = "get_index"

\* lines 194-197: read the index, normalise every line, take the slice
GetIndex ==
  /\ rpc = "get_index"
  /\ urls' = PySlice([k \in 1..Len(manifest) |-> Quote(Strip(manifest[k]))],
                     offset, offset + length)
  /\ rpc' = "process_minibatch"
  /\ UNCHANGED <<manifest, offset, length>>
  /\ UNCHANGED <<wvars, cvars, dvars, qvars>>

RangeNext == GetIndex

RangeSpecInit == RangeInit /\ WorkerIdle /\ ChunksIdle /\ DistIdle /\ QueueIdle

RangeSpec == RangeSpecInit /\ [][RangeNext]_vars

\* C4: for offset >= 0 and length >= 0 the list run() processes is the
\* contiguous part [offset, offset+length) of the normalised manifest, in
\* manifest order and clamped to its end: it has exactly
\* max(0, min(length, totalFileCount - offset)) entries and is empty when
\* offset >= totalFileCount.
C4_RangeResolution ==
  (rpc = "process_minibatch" /\ offset >= 0 /\ length >= 0) =>
    /\ Len(urls) = Max(0, Min(length, Len(manifest) - offset))
    /\ \A k \in 1..Len(urls) : urls[k] = Quote(Strip(manifest[offset + k]))
    /\ (offset >= Len(manifest) => urls = <<>>)

C4_Witness ==
  /\ rpc = "process_minibatch"
  /\ Len(manifest) = 3 /\ offset = 1 /\ length = 3
  /\ Len(urls) = 2
  /\ urls[1] = <<"%", "5", "B", "a">>

\* ---------------------------------------------------------------- chunks
MaxListLen == 4    \* length of the list given to chunks
MaxChunkSize == 3  \* largest n given to chunks
ChunkItems == {1, 2}

ChunksInit ==
  /\ \E k \in 0..MaxListLen : lst \in [1..k -> ChunkItems]
  /\ n \in 1..MaxChunkSize
  /\ ci = 0
  /\ out = <<>>
  /\ cpc = "iter"

\* a generator whose chunks stop one element early
ChunksStep_short ==
  /\ cpc = "iter"
  /\ IF ci < Len(lst)
       THEN /\ out' = Append(out, PySlice(lst, ci, ci + n - 1))
            /\ ci' = ci + n
            /\ UNCHANGED cpc
       ELSE /\ cpc' = "exhausted"
            /\ UNCHANGED <<ci, out>>
  /\ UNCHANGED <<lst, n>>
  /\ UNCHANGED <<wvars, rvars, dvars, qvars>>

\* lines 113-114: one step of `for i in range(0, len(lst), n): yield lst[i:i + n]`
ChunksStep ==
  /\ cpc = "iter"
  /\ IF ci < Len(lst)
       THEN /\ out' = Append(out, PySlice(lst, ci, ci + n))
            /\ ci' = ci + n
            /\ UNCHANGED cpc
       ELSE /\ cpc' = "exhausted"
            /\ UNCHANGED <<ci, out>>
  /\ UNCHANGED <<lst, n>>
  /\ UNCHANGED <<wvars, rvars, dvars, qvars>>

ChunksNext == ChunksStep

ChunksSpecInit == ChunksInit /\ WorkerIdle /\ RangeIdle /\ DistIdle /\ QueueIdle

ChunksSpec == ChunksSpecInit /\ [][ChunksNext]_vars

RECURSIVE Concat(_)
Concat(ss) == IF ss = <<>> THEN <<>> ELSE Head(ss) \o Concat(Tail(ss))

CeilDiv(a, b) == (a + b - 1) \div b

\* C9: for a non-empty list and n >= 1, chunks yields ceil(len(lst)/n) chunks,
\* every chunk but the last has exactly n entries, the last has between 1 and
\* n, and the chunks concatenated in order are the list.
C9_MinibatchPartitioning ==
  (cpc = "exhausted" /\ lst # <<>>) =>
    /\ Len(out) = CeilDiv(Len(lst), n)
    /\ \A k \in 1..(Len(out) - 1) : Len(out[k]) = n
    /\ Len(out[Len(out)]) \in 1..n
    /\ Concat(out) = lst

C9_Witness ==
  /\ cpc = "exhausted"
  /\ Len(lst) = 4 /\ n = 3
  /\ Len(out) = 2 /\ Len(out[2]) = 1
  /\ lst[1] # lst[2]

\* ------------------------------------------------------- job distributor
MaxTotFiles == 9    \* lines get_file_count counts
MaxBatchSize == 5   \* largest g_config.batch_size

DistInit ==
  /\ tot_files \in 0..MaxTotFiles
  /\ batch_size \in 1..MaxBatchSize
  /\ doffset = 0
  /\ tasks = <<>>
  /\ submitted = <<>>
  /\ dpc = "for"

\* lines 270-284: the task of one range; MY_JOB_LENGTH is always batch_size
CreateTask(off) ==
  [id |-> <<"task", off, off + batch_size - 1>>, offset |-> off, length |-> batch_size]

\* lines 269-288: the head and body of the submit loop; the body ends in `break`
SubmitLoop ==
  /\ dpc = "for"
  /\ IF doffset < tot_files
       THEN tasks' = Append(tasks, CreateTask(doffset))
       ELSE UNCHANGED tasks
  /\ dpc' = "submit_tasks"
  /\ UNCHANGED <<tot_files, batch_size, doffset, submitted>>
  /\ UNCHANGED <<wvars, rvars, cvars, qvars>>

\* lines 290-295
SubmitTasks ==
  /\ dpc = "submit_tasks"
  /\ submitted' = tasks
  /\ dpc' = "done"
  /\ UNCHANGED <<tot_files, batch_size, doffset, tasks>>
  /\ UNCHANGED <<wvars, rvars, cvars, qvars>>

DistNext ==
  \/ SubmitLoop
  \/ SubmitTasks

DistSpecInit == DistInit /\ WorkerIdle /\ RangeIdle /\ ChunksIdle /\ QueueIdle

DistSpec == DistSpecInit /\ [][DistNext]_vars

InRange(t, idx) == t.offset <= idx /\ idx < t.offset + t.length

\* C3: the ranges of the submitted tasks are consecutive, do not overlap and
\* together cover [0, tot_files): every manifest index lies in the range of
\* exactly one submitted task.
C3_DistributorCoverage ==
  dpc = "done" =>
    /\ \A k \in 1..(Len(submitted) - 1) :
         submitted[k + 1].offset = submitted[k].offset + submitted[k].length
    /\ \A idx \in 0..(tot_files - 1) :
         Cardinality({k \in DOMAIN submitted : InRange(submitted[k], idx)}) = 1

\* --------------------------------------------------------- monitor_queue
NumProducers == 2   \* processes that put events
MaxPerProducer == 2 \* events one producer puts

Producers == 1..NumProducers

QueueInit ==
  /\ queue = <<>>
  /\ enq = <<>>
  /\ sent = [p \in Producers |-> 0]
  /\ printed = <<>>
  /\ mpc = "sleep"

\* queue.put(event) by a producer; each event is its producer's next one
Put(p) ==
  /\ sent[p] < MaxPerProducer
  /\ sent' = [sent EXCEPT ![p] = @ + 1]
  /\ queue' = Append(queue, Val(<<p, sent[p] + 1>>))
  /\ enq' = Append(enq, Val(<<p, sent[p] + 1>>))
  /\ UNCHANGED <<printed, mpc>>
  /\ UNCHANGED <<wvars, rvars, cvars, dvars>>

\* line 222: queue.put(None), once
PutSentinel ==
  /\ \A k \in DOMAIN enq : enq[k] # None
  /\ queue' = Append(queue, None)
  /\ enq' = Append(enq, None)
  /\ UNCHANGED <<sent, printed, mpc>>
  /\ UNCHANGED <<wvars, rvars, cvars, dvars>>

\* line 99: sleep(0.1)
MonitorSleep ==
  /\ mpc = "sleep"
  /\ mpc' = "get"
  /\ UNCHANGED <<queue, enq, sent, printed>>
  /\ UNCHANGED <<wvars, rvars, cvars, dvars>>

\* a consumer that prints the message before it tests for the sentinel
MonitorGet_printfirst ==
  /\ mpc = "get"
  /\ queue # <<>>
  /\ queue' = Tail(queue)
  /\ printed' = Append(printed, Head(queue))
  /\ mpc' = IF Head(queue) = None THEN "done" ELSE "sleep"
  /\ UNCHANGED <<enq, sent>>
  /\ UNCHANGED <<wvars, rvars, cvars, dvars>>

\* lines 100-103: the blocking get, the sentinel test, the print
MonitorGet ==
  /\ mpc = "get"
  /\ queue # <<>>
  /\ queue' = Tail(queue)
  /\ IF Head(queue) = None
       THEN mpc' = "done" /\ UNCHANGED printed
       ELSE mpc' = "sleep" /\ printed' = Append(printed, Head(queue))
  /\ UNCHANGED <<enq, sent>>
  /\ UNCHANGED <<wvars, rvars, cvars, dvars>>

QueueNext ==
  \/ \E p \in Producers : Put(p)
  \/ PutSentinel
  \/ MonitorSleep
  \/ MonitorGet

\* the consumer thread runs whenever it can: it is never starved
QueueSpecInit == QueueInit /\ WorkerIdle /\ RangeIdle /\ ChunksIdle /\ DistIdle

QueueSpec ==
  /\ QueueSpecInit
  /\ [][QueueNext]_vars
  /\ WF_vars(MonitorSleep)
  /\ WF_vars(MonitorGet)

SentinelPut == \E k \in DOMAIN enq : enq[k] = None

RECURSIVE BeforeSentinel(_)
BeforeSentinel(s) ==
  IF s = <<>> \/ Head(s) = None THEN <<>> ELSE <<Head(s)>> \o BeforeSentinel(Tail(s))

Dequeued == Len(enq) - Len(queue)

C8_Safety ==
  /\ IsPrefix(printed, BeforeSentinel(enq))
  /\ mpc = "done" =>
       /\ SentinelPut
       /\ Dequeued > Len(BeforeSentinel(enq))
       /\ printed = BeforeSentinel(enq)

\* C8: monitor_queue prints every event put before the sentinel exactly once
\* and in arrival order, ends only after it has taken the sentinel off the
\* queue, and does end once the sentinel has been put.
C8_AggregatorLiveness ==
  /\ []C8_Safety
  /\ (SentinelPut ~> mpc = "done")

C8_Witness ==
  /\ mpc = "done"
  /\ Len(printed) = 3
  /\ \E j, k \in DOMAIN printed : ValOf(printed[j])[1] # ValOf(printed[k])[1]
  /\ queue # <<>>
====
